---- MODULE Spec2Model ----
(***************************************************************************)
(* Model of gw31415/eschaton: the hospital-rotation lottery simulator.     *)
(*   src/src/eschaton.rs : HospitalType, Course, TermVacants, Student,     *)
(*                         HospitalTable (course inference, feasible       *)
(*                         choices, weighted draw, commit, init_student)   *)
(*   src/src/main.rs     : baseline loading, the workers' trial loop, the  *)
(*                         channel and the aggregator task (State)          *)
(*                                                                         *)
(* usize values are kept modulo 2^64 by representatives: an integer        *)
(* n >= 0 stands for n, an integer n < 0 stands for 2^64 + n (so -1 is     *)
(* usize::MAX).  With magnitudes far below 2^63, integer + and - on the    *)
(* representatives are exactly the wrapping operations, and the unsigned   *)
(* order is ULt below.  The build decides what an overflow does: with      *)
(* overflow checks ("debug") it panics, without ("release") it wraps.      *)
(***************************************************************************)
EXTENDS Integers, Sequences, FiniteSets, TLC

VARIABLES
  build,            \* "debug" (overflow checks on) or "release" (wrapping)
  base_db,          \* main: db, the baseline HospitalTable
  base_students,    \* main: students, the baseline Vec<Student>
  db,               \* worker: the trial's clone of the table
  students,         \* worker: the Vec<Student> the running pass iterates (rest of it)
  undone_students,  \* worker: undone_students of the running pass
  eschatons,        \* worker: eschatons, the stuck participants of the trial
  pass,             \* number of the running pass of the trial (1 = first)
  shuffles,         \* number of shuffle() calls made in the trial
  pc,               \* worker: "load" | "trial" | "pass" | "send" | "panic" | "dropped";
                    \* "fn", "merge" (and _done) under SpecFn, SpecMerge;
                    \* "spawned" under SpecWorkers, whose workers hold their own
  fn_arg,           \* argument of the pure functions under SpecFn, SpecMerge
  fn_res,           \* their result under SpecFn, SpecMerge
  chan,             \* the mpsc channel: the (stuck students, table) results in flight
  closed,           \* every Sender of the channel has been dropped
  state,            \* aggregator: state, [count, success, fails]
  file,             \* state.json: <<>> while it does not exist, else <<the State in it>>
  now,              \* the last reading of the clock by the aggregator, in ms
  last_shown,       \* aggregator: last_shown
  last_saved,       \* aggregator: last_saved
  agg_pc,           \* aggregator: the branch its last iteration took:
                    \* "init" | "merge" | "report" | "save" | "final", or how the
                    \* task ended: "panic" | "dropped"
  finals,           \* number of times the branch of recv() = None has run
  workers           \* under SpecWorkers: per worker task, its trial state

vars == <<build, base_db, base_students, db, students, undone_students,
          eschatons, pass, shuffles, pc, fn_arg, fn_res,
          chan, closed, state, file, now, last_shown, last_saved, agg_pc, finals,
          workers>>

----------------------------------------------------------------------------
(* Bounds and program constants *)

\* number of participants loaded into the baseline
MaxStudents == 2

\* terms per student: selection: [Option<HospitalType>; 6]
NumTerms == 6

Terms == 1..NumTerms

----------------------------------------------------------------------------
(* usize *)

USIZE_MAX == -1

\* a < b on usize
ULt(a, b) ==
  IF a >= 0
    THEN (b < 0) \/ (a < b)
    ELSE (b < 0) /\ (a < b)

\* usize::min
UMin(a, b) == IF ULt(b, a) THEN b ELSE a

----------------------------------------------------------------------------
(* HospitalType, Course, TermVacants *)

InnerMedical  == "InnerMedical"
InnerSurgical == "InnerSurgical"
OuterSurgical == "OuterSurgical"
OuterMedical  == "OuterMedical"

HospitalType == {InnerMedical, InnerSurgical, OuterSurgical, OuterMedical}

None == "None"

Eschaton  == "Eschaton"
Avoidance == "Avoidance"

\* TermVacants::count
Count(tv, h) ==
  CASE h = InnerMedical  -> tv.inner_medical
    [] h = InnerSurgical -> tv.inner_surgical
    [] h = OuterMedical  -> tv.outer_medical
    [] h = OuterSurgical -> tv.outer_surgical

\* TermVacants::new(inner_medical, inner_surgical, outer_surgical, outer_medical)
TermVacantsNew(inner_medical, inner_surgical, outer_surgical, outer_medical) ==
  [inner_medical  |-> inner_medical,
   inner_surgical |-> inner_surgical,
   outer_medical  |-> outer_medical,
   outer_surgical |-> outer_surgical]

\* TermVacants::zero
Zero == TermVacantsNew(0, 0, 0, 0)

\* TermVacants::infinite
Infinite == TermVacantsNew(USIZE_MAX, USIZE_MAX, USIZE_MAX, USIZE_MAX)

\* impl SubAssign<HospitalType> for TermVacants (the wrapped value)
SubAssign(tv, h) ==
  CASE h = InnerMedical  -> [tv EXCEPT !.inner_medical  = @ - 1]
    [] h = InnerSurgical -> [tv EXCEPT !.inner_surgical = @ - 1]
    [] h = OuterMedical  -> [tv EXCEPT !.outer_medical  = @ - 1]
    [] h = OuterSurgical -> [tv EXCEPT !.outer_surgical = @ - 1]

\* the subtraction of SubAssign overflows: the count it decrements is 0
SubOverflows(tv, h) == Count(tv, h) = 0

\* TermVacants::len (wrapping sum)
VacantsLen(tv) ==
  tv.inner_medical + tv.inner_surgical + tv.outer_medical + tv.outer_surgical

\* TermVacants::is_empty
VacantsIsEmpty(tv) ==
  \A x \in {tv.inner_medical, tv.inner_surgical, tv.outer_medical, tv.outer_surgical} :
    x = 0

\* BitAndVacants taking the need alone, whatever the table has left
BitAndVacantsNeedOnly(self, rhs) ==
  TermVacantsNew(rhs.inner_medical, rhs.inner_surgical,
                 rhs.outer_surgical, rhs.outer_medical)

\* impl BitAnd<&Self> for TermVacants
BitAndVacants(self, rhs) ==
  TermVacantsNew(UMin(self.inner_medical, rhs.inner_medical),
                 UMin(self.inner_surgical, rhs.inner_surgical),
                 UMin(self.outer_surgical, rhs.outer_surgical),
                 UMin(self.outer_medical, rhs.outer_medical))

\* impl From<&Course> for TermVacants
FromCourse(value) ==
  IF value = Eschaton
    THEN [inner_medical |-> 1, inner_surgical |-> 2,
          outer_medical |-> 2, outer_surgical |-> 1]
    ELSE [inner_medical |-> 2, inner_surgical |-> 1,
          outer_medical |-> 1, outer_surgical |-> 2]

----------------------------------------------------------------------------
(* Student *)

\* CourseOfRepeat with the two outer hospital types exchanged
CourseOfRepeatOuterSwapped(h) ==
  CASE h = InnerMedical  -> Avoidance
    [] h = InnerSurgical -> Eschaton
    [] h = OuterMedical  -> Avoidance
    [] h = OuterSurgical -> Eschaton

\* the match of Student::course on the repeated hospital
CourseOfRepeat(h) ==
  CASE h = InnerMedical  -> Avoidance
    [] h = InnerSurgical -> Eschaton
    [] h = OuterMedical  -> Eschaton
    [] h = OuterSurgical -> Avoidance

RECURSIVE CourseScan(_, _, _)
\* the loop of Student::course from term i on, already_shown being the set so far
CourseScan(selection, i, already_shown) ==
  IF i > NumTerms THEN None
  ELSE IF selection[i] = None THEN CourseScan(selection, i + 1, already_shown)
  ELSE IF selection[i] \in already_shown THEN CourseOfRepeat(selection[i])
  ELSE CourseScan(selection, i + 1, already_shown \cup {selection[i]})

\* Student::course
Course(student) == CourseScan(student.selection, 1, {})

\* SelectableTerms keeping the assigned terms (is_some for is_none)
SelectableTermsAssigned(student) == {t \in Terms : student.selection[t] # None}

\* Student::selectable_terms
SelectableTerms(student) == {t \in Terms : student.selection[t] = None}

RECURSIVE RequiredFold(_, _, _)
\* the loop of Student::required_hospitals from term i on:
\* the slot reached and whether a decrement overflowed on the way
RequiredFold(selection, i, acc) ==
  IF i > NumTerms THEN acc
  ELSE IF selection[i] = None THEN RequiredFold(selection, i + 1, acc)
  ELSE RequiredFold(selection, i + 1,
         [slot     |-> SubAssign(acc.slot, selection[i]),
          overflow |-> acc.overflow \/ SubOverflows(acc.slot, selection[i])])

\* RequiredHospitals without the course vector: every need stays infinite
RequiredHospitalsUnbounded(student) == [slot |-> Infinite, overflow |-> FALSE]

\* Student::required_hospitals: [slot, overflow]
RequiredHospitals(student) ==
  IF Course(student) # None
    THEN RequiredFold(student.selection, 1,
                      [slot |-> FromCourse(Course(student)), overflow |-> FALSE])
    ELSE [slot |-> Infinite, overflow |-> FALSE]

\* Done inverted: some slot is still unassigned
DoneInverted(student) == \E t \in Terms : student.selection[t] = None

\* Student::done
Done(student) == \A t \in Terms : student.selection[t] # None

----------------------------------------------------------------------------
(* HospitalTable *)

\* BitAndStudent over every term, the assigned ones included
BitAndStudentEveryTerm(self, rhs, slots) ==
  [term \in Terms |-> BitAndVacants(self[term], slots)]

\* impl BitAnd<&Student> for &HospitalTable, slots being rhs.required_hospitals()
BitAndStudent(self, rhs, slots) ==
  [term \in Terms |->
     IF term \in SelectableTerms(rhs)
       THEN BitAndVacants(self[term], slots)
       ELSE Zero]

\* HospitalTable::is_empty
TableIsEmpty(table) == \A term \in Terms : VacantsIsEmpty(table[term])

RECURSIVE SumLen(_, _)
SumLen(table, term) ==
  IF term > NumTerms THEN 0 ELSE VacantsLen(table[term]) + SumLen(table, term + 1)

\* HospitalTable::len (wrapping sum)
TableLen(table) == SumLen(table, 1)

\* the order in which HospitalTable::index walks the hospitals of one term
IndexOrder == <<InnerMedical, InnerSurgical, OuterSurgical, OuterMedical>>

RECURSIVE IndexInTermOffByOne(_, _, _, _)
\* IndexInTerm comparing i + 1 < count: the last index of a block falls through
IndexInTermOffByOne(slot, i, k, count) ==
  IF k > Len(IndexOrder) THEN None
  ELSE LET c == count + Count(slot, IndexOrder[k])
       IN  IF ULt(i + 1, c) THEN IndexOrder[k]
           ELSE IndexInTermOffByOne(slot, i, k + 1, c)

RECURSIVE IndexInTerm(_, _, _, _)
\* the inner loop of HospitalTable::index: k-th hospital on, count so far
IndexInTerm(slot, i, k, count) ==
  IF k > Len(IndexOrder) THEN None
  ELSE LET c == count + Count(slot, IndexOrder[k])
       IN  IF ULt(i, c) THEN IndexOrder[k]
           ELSE IndexInTerm(slot, i, k + 1, c)

RECURSIVE IndexWalk(_, _, _)
\* the outer loop of HospitalTable::index from term on
IndexWalk(table, term, i) ==
  IF term > NumTerms THEN None
  ELSE LET size == VacantsLen(table[term])
       IN  IF ULt(i, size)
             THEN LET h == IndexInTerm(table[term], i, 1, 0)
                  IN  IF h # None THEN <<term, h>>
                      ELSE IndexWalk(table, term + 1, i)
             ELSE IndexWalk(table, term + 1, i - size)

\* HospitalTable::index: None or <<term, hospital>>
Index(table, i) == IndexWalk(table, 1, i)

\* draws of rng.random_range(0..n) for n # 0; a range of 2^64 - k values is
\* sampled at its two ends
MaxDraw == 12

RandomRange(n) ==
  IF n > 0 THEN 0..(n - 1)
  ELSE (0..MaxDraw) \cup ((n - 1 - MaxDraw)..(n - 1))

\* Commit without self.0[term] -= hospital
CommitKeepsInventory(table, student, term, hospital) ==
  [kind    |-> "ok",
   table   |-> table,
   student |-> [student EXCEPT !.selection[term] = hospital]]

\* the commit of HospitalTable::random_select
Commit(table, student, term, hospital) ==
  [kind    |-> IF SubOverflows(table[term], hospital) /\ build = "debug"
                 THEN "panic" ELSE "ok",
   table   |-> [table EXCEPT ![term] = SubAssign(@, hospital)],
   student |-> [student EXCEPT !.selection[term] = hospital]]

\* HospitalTable::random_select: the outcomes of one call, over every draw.
\* kind "ok" is Ok(()), "err" is Err(()), "panic" is a panic of the call.
RandomSelect(table, student) ==
  LET required == RequiredHospitals(student)
      choices  == BitAndStudent(table, student, required.slot)
      same(k)  == [kind |-> k, table |-> table, student |-> student]
  IN  IF required.overflow /\ build = "debug" THEN {same("panic")}
      ELSE IF TableIsEmpty(choices) THEN {same("err")}
      ELSE IF TableLen(choices) = 0 THEN {same("panic")}
      ELSE { LET picked == Index(choices, rnd_index)
             IN  IF picked = None
                   THEN same("err")
                   ELSE Commit(table, student, picked[1], picked[2])
             : rnd_index \in RandomRange(TableLen(choices)) }

\* HospitalTable::init_student: the table after the decrements, the student,
\* and whether a decrement overflowed
RECURSIVE InitFold(_, _, _)
InitFold(selection, term, acc) ==
  IF term > NumTerms THEN acc
  ELSE IF selection[term] = None THEN InitFold(selection, term + 1, acc)
  ELSE InitFold(selection, term + 1,
         [table    |-> [acc.table EXCEPT ![term] = SubAssign(@, selection[term])],
          overflow |-> acc.overflow \/ SubOverflows(acc.table[term], selection[term])])

InitStudent(table, option) ==
  LET r == InitFold(option.selection, 1, [table |-> table, overflow |-> FALSE])
  IN  [table    |-> r.table,
       overflow |-> r.overflow,
       student  |-> [name |-> option.name, selection |-> option.selection]]

----------------------------------------------------------------------------
(* Inputs: reserves.csv and students.csv *)

TV(im, is, om, os) ==
  [inner_medical |-> im, inner_surgical |-> is, outer_medical |-> om, outer_surgical |-> os]

\* tables read from reserves.csv, one row per term
Reserves ==
  { \* the shape of the Eschaton course, with two places in terms 3 to 6
    <<TV(0,1,0,0), TV(0,1,0,0), TV(2,0,0,0), TV(0,0,2,0), TV(0,0,2,0), TV(0,0,0,2)>>,
    \* the shape of the Avoidance course, with a second hospital type in term 3
    <<TV(1,0,0,0), TV(1,0,0,0), TV(1,1,0,0), TV(0,0,1,0), TV(0,0,0,1), TV(0,0,0,1)>>,
    \* one place per term, a repeat of either course within reach
    <<TV(0,1,0,0), TV(0,1,0,0), TV(1,0,0,0), TV(0,0,1,0), TV(0,0,0,1), TV(0,0,0,1)>> }

\* the term columns of the rows read from students.csv
Selections ==
  { <<None, None, None, None, None, None>>,
    <<InnerSurgical, InnerSurgical, None, None, None, None>>,
    <<InnerMedical, InnerMedical, InnerMedical, None, None, None>>,
    <<InnerSurgical, InnerSurgical, InnerMedical, OuterMedical, OuterMedical, OuterSurgical>> }

----------------------------------------------------------------------------
(* main: loading the baseline; the worker's trial loop *)

RECURSIVE Perms(_)
\* the orders s.shuffle(&mut rng) can leave a Vec in
Perms(s) ==
  IF Len(s) = 0 THEN {<<>>}
  ELSE UNION { { <<s[i]>> \o p : p \in Perms(SubSeq(s, 1, i - 1) \o SubSeq(s, i + 1, Len(s))) }
               : i \in 1..Len(s) }

trial == <<db, students, undone_students, eschatons, pass, shuffles>>
base  == <<build, base_db, base_students>>
fn    == <<fn_arg, fn_res>>
aggregator == <<chan, closed, state, file, now, last_shown, last_saved, agg_pc, finals>>

\* State::default()
DefaultState == [count |-> 0, success |-> 0, fails |-> <<>>]

\* the aggregator task as it enters its loop, state.json holding f
AggregatorAt(f) ==
  /\ chan = <<>>
  /\ closed = FALSE
  /\ file = f
  /\ state = IF f = <<>> THEN DefaultState ELSE f[1]
  /\ now = 0
  /\ last_shown = 0
  /\ last_saved = 0
  /\ agg_pc = "init"
  /\ finals = 0

Init ==
  /\ build \in {"debug", "release"}
  /\ base_db \in Reserves
  /\ base_students = <<>>
  /\ db = base_db
  /\ students = <<>>
  /\ undone_students = <<>>
  /\ eschatons = <<>>
  /\ pass = 0
  /\ shuffles = 0
  /\ pc = "load"
  /\ fn_arg = None
  /\ fn_res = None
  /\ AggregatorAt(<<>>)
  /\ workers = <<>>

\* main: one row of students.csv through db.new_student / init_student
LoadStudent(selection) ==
  /\ pc = "load"
  /\ Len(base_students) < MaxStudents
  /\ LET r == InitStudent(base_db, [name |-> Len(base_students) + 1,
                                    selection |-> selection])
     IN  IF r.overflow /\ build = "debug"
           THEN /\ pc' = "panic"
                /\ UNCHANGED <<base_db, base_students, db>>
           ELSE /\ base_db' = r.table
                /\ base_students' = Append(base_students, r.student)
                /\ db' = r.table
                /\ pc' = "load"
  /\ UNCHANGED <<build, students, undone_students, eschatons, pass, shuffles, fn, aggregator, workers>>

\* main: the baseline is complete, the worker is spawned
Spawn ==
  /\ pc = "load"
  /\ pc' = "trial"
  /\ UNCHANGED <<base, trial, fn, aggregator, workers>>

\* worker: clone the baseline and shuffle the students once
StartTrial ==
  /\ pc = "trial"
  /\ db' = base_db
  /\ students' \in Perms(base_students)
  /\ undone_students' = <<>>
  /\ eschatons' = <<>>
  /\ pass' = 1
  /\ shuffles' = 1
  /\ pc' = "pass"
  /\ UNCHANGED <<base, fn, aggregator, workers>>

\* worker: for mut student in students { if student.done() { continue } ...
SkipDone ==
  /\ pc = "pass"
  /\ students # <<>>
  /\ Done(Head(students))
  /\ students' = Tail(students)
  /\ UNCHANGED <<base, db, undone_students, eschatons, pass, shuffles, pc, fn, aggregator, workers>>

\* SelectErr leaving 'game at the first stuck participant
SelectErrAbort ==
  /\ pc = "pass"
  /\ students # <<>>
  /\ ~Done(Head(students))
  /\ \E r \in RandomSelect(db, Head(students)) :
       /\ r.kind = "err"
       /\ db' = r.table
       /\ eschatons' = Append(eschatons, r.student)
  /\ pc' = "send"
  /\ UNCHANGED <<base, students, undone_students, pass, shuffles, fn, aggregator, workers>>

\* ... else if db.random_select(&mut student, &mut rng).is_err() { eschatons.push(student) }
SelectErr ==
  /\ pc = "pass"
  /\ students # <<>>
  /\ ~Done(Head(students))
  /\ \E r \in RandomSelect(db, Head(students)) :
       /\ r.kind = "err"
       /\ db' = r.table
       /\ eschatons' = Append(eschatons, r.student)
  /\ students' = Tail(students)
  /\ UNCHANGED <<base, undone_students, pass, shuffles, pc, fn, aggregator, workers>>

\* ... else { undone_students.push(student) } }
SelectOk ==
  /\ pc = "pass"
  /\ students # <<>>
  /\ ~Done(Head(students))
  /\ \E r \in RandomSelect(db, Head(students)) :
       /\ r.kind = "ok"
       /\ db' = r.table
       /\ undone_students' = Append(undone_students, r.student)
  /\ students' = Tail(students)
  /\ UNCHANGED <<base, eschatons, pass, shuffles, pc, fn, aggregator, workers>>

\* random_select panics: the worker task ends inside the trial
SelectPanic ==
  /\ pc = "pass"
  /\ students # <<>>
  /\ ~Done(Head(students))
  /\ \E r \in RandomSelect(db, Head(students)) : r.kind = "panic"
  /\ pc' = "panic"
  /\ UNCHANGED <<base, trial, fn, aggregator, workers>>

\* if undone_students.is_empty() { break 'game (eschatons, db) }
BreakGame ==
  /\ pc = "pass"
  /\ students = <<>>
  /\ undone_students = <<>>
  /\ pc' = "send"
  /\ UNCHANGED <<base, trial, fn, aggregator, workers>>

\* NextPass shuffling the participants that advanced
NextPassReshuffled ==
  /\ pc = "pass"
  /\ students = <<>>
  /\ undone_students # <<>>
  /\ students' \in Perms(undone_students)
  /\ undone_students' = <<>>
  /\ pass' = pass + 1
  /\ shuffles' = shuffles + 1
  /\ UNCHANGED <<base, db, eschatons, pc, fn, aggregator, workers>>

\* NextPass cloning the baseline table again for the next pass
NextPassFreshTable ==
  /\ pc = "pass"
  /\ students = <<>>
  /\ undone_students # <<>>
  /\ students' = undone_students
  /\ undone_students' = <<>>
  /\ db' = base_db
  /\ pass' = pass + 1
  /\ UNCHANGED <<base, eschatons, shuffles, pc, fn, aggregator, workers>>

\* students = undone_students, and the next pass of 'game
NextPass ==
  /\ pc = "pass"
  /\ students = <<>>
  /\ undone_students # <<>>
  /\ students' = undone_students
  /\ undone_students' = <<>>
  /\ pass' = pass + 1
  /\ UNCHANGED <<base, db, eschatons, shuffles, pc, fn, aggregator, workers>>

\* tx.send(result), and the next iteration of the worker's loop; the result
\* leaves the model here, SendResult is the send with the channel kept
Send ==
  /\ pc = "send"
  /\ pc' = "trial"
  /\ db' = base_db
  /\ eschatons' = <<>>
  /\ pass' = 0
  /\ shuffles' = 0
  /\ UNCHANGED <<base, students, undone_students, fn, aggregator, workers>>

Next ==
  \/ \E selection \in Selections : LoadStudent(selection)
  \/ Spawn
  \/ StartTrial
  \/ SkipDone
  \/ SelectErr
  \/ SelectOk
  \/ SelectPanic
  \/ BreakGame
  \/ NextPass
  \/ Send

Spec == Init /\ [][Next]_vars

----------------------------------------------------------------------------
(* Student::course and Student::required_hospitals on every selection *)

InitFn ==
  /\ build \in {"debug", "release"}
  /\ fn_arg \in [Terms -> HospitalType \cup {None}]
  /\ fn_res = None
  /\ pc = "fn"
  /\ base_db = <<>>
  /\ base_students = <<>>
  /\ db = <<>>
  /\ students = <<>>
  /\ undone_students = <<>>
  /\ eschatons = <<>>
  /\ pass = 0
  /\ shuffles = 0
  /\ AggregatorAt(<<>>)
  /\ workers = <<>>

\* course() and required_hospitals() of the student holding fn_arg;
\* panic where the build panics on the overflow of required_hospitals()
FnApply ==
  /\ pc = "fn"
  /\ LET student  == [name |-> 0, selection |-> fn_arg]
         required == RequiredHospitals(student)
     IN  fn_res' = [course   |-> Course(student),
                    panic    |-> required.overflow /\ build = "debug",
                    required |-> required.slot]
  /\ pc' = "fn_done"
  /\ UNCHANGED <<base, trial, fn_arg, aggregator, workers>>

NextFn == FnApply

SpecFn == InitFn /\ [][NextFn]_vars

----------------------------------------------------------------------------
(* main.rs: State and the aggregator task *)

\* channel(4096): the capacity of the channel
ChannelCapacity == 4096

\* the columns Report pads the name of the first stuck student to
ReportNameColumns == 20

\* stdout_duration and save_duration, in ms
StdoutDuration == 200
SaveDuration == 5000

\* results in flight at a time, trials counted, runs of the recv() = None branch
MaxInFlight == 1
MaxCount == 3
MaxFinals == 2

\* self.fails.entry(name).and_modify(|c| *c += 1).or_insert(1)
FailsEntry(fails, name) ==
  IF name \in DOMAIN fails
    THEN [fails EXCEPT ![name] = @ + 1]
    ELSE [n \in DOMAIN fails \cup {name} |-> IF n = name THEN 1 ELSE fails[n]]

RECURSIVE FailsFold(_, _, _)
\* for student in rhs { ... } from the i-th student on
FailsFold(fails, rhs, i) ==
  IF i > Len(rhs) THEN fails
  ELSE FailsFold(FailsEntry(fails, rhs[i].name), rhs, i + 1)

\* Merge setting success to whether the last outcome was a success
MergeSuccessOfLast(self, rhs) ==
  [count   |-> self.count + 1,
   success |-> IF rhs = <<>> THEN 1 ELSE 0,
   fails   |-> FailsFold(self.fails, rhs, 1)]

\* impl AddAssign<Vec<Student>> for State: the state after self += rhs
Merge(self, rhs) ==
  [count   |-> self.count + 1,
   success |-> IF rhs = <<>> THEN self.success + 1 ELSE self.success,
   fails   |-> FailsFold(self.fails, rhs, 1)]

\* the time that may have passed on the clock since its last reading, in ms
Elapsed == {0, 150, 5000}

\* a name of students.csv is kept as <<identity, display width in columns>>
Width(name) == name[2]

\* the aggregator task is alive and holds the Receiver
RxAlive == agg_pc \notin {"panic", "dropped"}

\* impl Display for Report: " ".repeat(20 - width) on the name of
\* students.first(): for a wider name the usize subtraction panics with
\* overflow checks, and wraps to a length repeat() panics on without them
ReportPanics(msg) ==
  /\ msg.students # <<>>
  /\ Width(Head(msg.students).name) > ReportNameColumns

\* AggRecv with the save gate next to the report gate, not inside it
AggRecvSaveUngated(elapsed) ==
  /\ RxAlive
  /\ chan # <<>>
  /\ LET msg    == Head(chan)
         t      == now + elapsed
         shown  == t - last_shown > StdoutDuration
         saved  == t - last_saved > SaveDuration
         panics == shown /\ ReportPanics(msg)
     IN  /\ now' = t
         /\ last_shown' = IF shown THEN t ELSE last_shown
         /\ last_saved' = IF saved THEN t ELSE last_saved
         /\ file' = IF saved THEN <<state>> ELSE file
         /\ agg_pc' = IF panics THEN "panic"
                      ELSE IF saved THEN "save" ELSE IF shown THEN "report" ELSE "merge"
         /\ state' = IF panics THEN state ELSE Merge(state, msg.students)
  /\ chan' = Tail(chan)
  /\ UNCHANGED <<base, trial, pc, fn, closed, finals, workers>>

\* aggregator: rx.recv() = Some((students, db)), the clock having advanced
\* by elapsed: the report gate, the save gate inside it, the report, then
\* state += students; a panic of the report ends the task before the merge
AggRecv(elapsed) ==
  /\ RxAlive
  /\ chan # <<>>
  /\ LET msg    == Head(chan)
         t      == now + elapsed
         shown  == t - last_shown > StdoutDuration
         saved  == shown /\ t - last_saved > SaveDuration
         panics == shown /\ ReportPanics(msg)
     IN  /\ now' = t
         /\ last_shown' = IF shown THEN t ELSE last_shown
         /\ last_saved' = IF saved THEN t ELSE last_saved
         /\ file' = IF saved THEN <<state>> ELSE file
         /\ agg_pc' = IF panics THEN "panic"
                      ELSE IF saved THEN "save" ELSE IF shown THEN "report" ELSE "merge"
         /\ state' = IF panics THEN state ELSE Merge(state, msg.students)
  /\ chan' = Tail(chan)
  /\ UNCHANGED <<base, trial, pc, fn, closed, finals, workers>>

\* aggregator: rx.recv() = None (the channel is closed and drained): write
\* state.json, print "Successfully saved state.json"; the loop goes on
AggRecvNone ==
  /\ RxAlive
  /\ chan = <<>>
  /\ closed
  /\ finals < MaxFinals
  /\ file' = <<state>>
  /\ finals' = finals + 1
  /\ agg_pc' = "final"
  /\ UNCHANGED <<base, trial, pc, fn, chan, closed, state, now, last_shown,
                 last_saved, workers>>

\* worker: let _ = tx.send(result).await: the result enters the channel once
\* there is room, or is dropped with Err when the Receiver is gone; then the
\* next iteration of the worker's loop
SendResult ==
  /\ pc = "send"
  /\ \/ /\ RxAlive
        /\ Len(chan) < ChannelCapacity
        /\ Len(chan) < MaxInFlight
        /\ chan' = Append(chan, [students |-> eschatons, db |-> db])
     \/ /\ ~RxAlive
        /\ chan' = chan
  /\ pc' = "trial"
  /\ db' = base_db
  /\ eschatons' = <<>>
  /\ pass' = 0
  /\ shuffles' = 0
  /\ UNCHANGED <<base, students, undone_students, fn, closed, state, file, now,
                 last_shown, last_saved, agg_pc, finals, workers>>

\* main: ctrl_c() returns and main ends: tx is dropped, the runtime shuts
\* down and drops the worker task with its clone of tx
Shutdown ==
  /\ ~closed
  /\ pc \in {"trial", "pass", "send"}
  /\ closed' = TRUE
  /\ pc' = "dropped"
  /\ UNCHANGED <<base, trial, fn, chan, state, file, now, last_shown, last_saved,
                 agg_pc, finals, workers>>

\* the shutdown of the runtime drops the aggregator task
AggDropped ==
  /\ closed
  /\ RxAlive
  /\ agg_pc' = "dropped"
  /\ UNCHANGED <<base, trial, pc, fn, chan, closed, state, file, now, last_shown,
                 last_saved, finals, workers>>

RECURSIVE LoadRows(_, _, _)
\* main: the rows of students.csv through init_student, from the i-th on
LoadRows(acc, rows, i) ==
  IF i > Len(rows) THEN acc
  ELSE LET r == InitStudent(acc.table, rows[i])
       IN  LoadRows([table |-> r.table, students |-> Append(acc.students, r.student)],
                    rows, i + 1)

\* rows of students.csv with terms 5 and 6 left, with term 6 left
TwoTermsLeft == <<InnerSurgical, InnerSurgical, InnerMedical, OuterMedical, None, None>>
OneTermLeft == <<InnerSurgical, InnerSurgical, InnerMedical, OuterMedical, OuterMedical, None>>

\* the baselines of the runs with the aggregator: one participant, two
\* participants (the second with a name of 24 columns), each with two terms
\* left that a bad draw leaves stuck
AggBaselines ==
  { LoadRows([table |-> <<TV(0,1,0,0), TV(0,1,0,0), TV(1,0,0,0), TV(0,0,1,0),
                          TV(0,0,1,1), TV(0,0,0,1)>>,
              students |-> <<>>],
             << [name |-> <<1, 8>>, selection |-> TwoTermsLeft] >>, 1),
    LoadRows([table |-> <<TV(0,2,0,0), TV(0,2,0,0), TV(2,0,0,0), TV(0,0,2,0),
                          TV(0,0,1,1), TV(0,0,1,1)>>,
              students |-> <<>>],
             << [name |-> <<1, 8>>, selection |-> TwoTermsLeft],
                [name |-> <<2, 24>>, selection |-> TwoTermsLeft] >>, 1) }

\* state.json at the start: absent, or left by an earlier run
SavedFiles ==
  {<<>>, <<[count |-> 1, success |-> 0, fails |-> [n \in {<<1, 8>>} |-> 1]]>>}

InitAgg ==
  /\ build \in {"debug", "release"}
  /\ \E b \in AggBaselines : base_db = b.table /\ base_students = b.students
  /\ db = base_db
  /\ students = <<>>
  /\ undone_students = <<>>
  /\ eschatons = <<>>
  /\ pass = 0
  /\ shuffles = 0
  /\ pc = "trial"
  /\ fn_arg = None
  /\ fn_res = None
  /\ \E f \in SavedFiles : AggregatorAt(f)
  /\ workers = <<>>

NextAgg ==
  \/ StartTrial /\ state.count + Len(chan) < MaxCount
  \/ SkipDone
  \/ SelectErr
  \/ SelectOk
  \/ BreakGame
  \/ NextPass
  \/ SendResult
  \/ \E elapsed \in Elapsed : AggRecv(elapsed)
  \/ AggRecvNone
  \/ Shutdown
  \/ AggDropped

SpecAgg == InitAgg /\ [][NextAgg]_vars

----------------------------------------------------------------------------
(* main.rs: the worker tasks side by side, each with its own clones *)

\* worker tasks spawned (available_parallelism())
NumWorkers == 2

Workers == 1..NumWorkers

\* the trials begun so far: merged, in flight, or running
Begun == state.count + Len(chan) + Cardinality({w \in Workers : workers[w].pc # "trial"})

\* worker w: clone the baseline and shuffle the students once
WStartTrial(w) ==
  /\ workers[w].pc = "trial"
  /\ Begun < MaxCount
  /\ \E shuffled \in Perms(base_students) :
       workers' = [workers EXCEPT ![w] =
                     [db |-> base_db, students |-> shuffled, undone_students |-> <<>>,
                      eschatons |-> <<>>, pc |-> "pass"]]
  /\ UNCHANGED <<base, trial, pc, fn, aggregator>>

\* worker w: if student.done() { continue }
WSkipDone(w) ==
  /\ workers[w].pc = "pass"
  /\ workers[w].students # <<>>
  /\ Done(Head(workers[w].students))
  /\ workers' = [workers EXCEPT ![w].students = Tail(@)]
  /\ UNCHANGED <<base, trial, pc, fn, aggregator>>

\* worker w: random_select is_err => eschatons.push(student)
WSelectErr(w) ==
  /\ workers[w].pc = "pass"
  /\ workers[w].students # <<>>
  /\ ~Done(Head(workers[w].students))
  /\ \E r \in RandomSelect(workers[w].db, Head(workers[w].students)) :
       /\ r.kind = "err"
       /\ workers' = [workers EXCEPT ![w].db = r.table,
                                     ![w].students = Tail(@),
                                     ![w].eschatons = Append(@, r.student)]
  /\ UNCHANGED <<base, trial, pc, fn, aggregator>>

\* WSelectOk committing to the table all workers share instead of a clone
WSelectOkShared(w) ==
  /\ workers[w].pc = "pass"
  /\ workers[w].students # <<>>
  /\ ~Done(Head(workers[w].students))
  /\ \E r \in RandomSelect(base_db, Head(workers[w].students)) :
       /\ r.kind = "ok"
       /\ base_db' = r.table
       /\ workers' = [workers EXCEPT ![w].db = r.table,
                                     ![w].students = Tail(@),
                                     ![w].undone_students = Append(@, r.student)]
  /\ UNCHANGED <<build, base_students, trial, pc, fn, aggregator>>

\* worker w: random_select ok => undone_students.push(student)
WSelectOk(w) ==
  /\ workers[w].pc = "pass"
  /\ workers[w].students # <<>>
  /\ ~Done(Head(workers[w].students))
  /\ \E r \in RandomSelect(workers[w].db, Head(workers[w].students)) :
       /\ r.kind = "ok"
       /\ workers' = [workers EXCEPT ![w].db = r.table,
                                     ![w].students = Tail(@),
                                     ![w].undone_students = Append(@, r.student)]
  /\ UNCHANGED <<base, trial, pc, fn, aggregator>>

\* worker w: if undone_students.is_empty() { break 'game (eschatons, db) }
WBreakGame(w) ==
  /\ workers[w].pc = "pass"
  /\ workers[w].students = <<>>
  /\ workers[w].undone_students = <<>>
  /\ workers' = [workers EXCEPT ![w].pc = "send"]
  /\ UNCHANGED <<base, trial, pc, fn, aggregator>>

\* worker w: students = undone_students, and the next pass of 'game
WNextPass(w) ==
  /\ workers[w].pc = "pass"
  /\ workers[w].students = <<>>
  /\ workers[w].undone_students # <<>>
  /\ workers' = [workers EXCEPT ![w].students = workers[w].undone_students,
                                ![w].undone_students = <<>>]
  /\ UNCHANGED <<base, trial, pc, fn, aggregator>>

\* worker w: let _ = tx.send(result).await, and the next iteration of the
\* worker's loop
WSendResult(w) ==
  /\ workers[w].pc = "send"
  /\ \/ /\ RxAlive
        /\ Len(chan) < ChannelCapacity
        /\ Len(chan) < MaxInFlight
        /\ chan' = Append(chan, [students |-> workers[w].eschatons, db |-> workers[w].db])
     \/ /\ ~RxAlive
        /\ chan' = chan
  /\ workers' = [workers EXCEPT ![w].pc = "trial", ![w].db = base_db,
                                ![w].eschatons = <<>>]
  /\ UNCHANGED <<base, trial, pc, fn, closed, state, file, now, last_shown,
                 last_saved, agg_pc, finals>>

\* the baselines of the runs with several workers: one participant with two
\* terms left; two participants after the one place of term 6
WorkerBaselines ==
  { LoadRows([table |-> <<TV(0,1,0,0), TV(0,1,0,0), TV(1,0,0,0), TV(0,0,1,0),
                          TV(0,0,1,1), TV(0,0,0,1)>>,
              students |-> <<>>],
             << [name |-> <<1, 8>>, selection |-> TwoTermsLeft] >>, 1),
    LoadRows([table |-> <<TV(0,2,0,0), TV(0,2,0,0), TV(2,0,0,0), TV(0,0,2,0),
                          TV(0,0,2,0), TV(0,0,0,1)>>,
              students |-> <<>>],
             << [name |-> <<1, 8>>, selection |-> OneTermLeft],
                [name |-> <<2, 8>>, selection |-> OneTermLeft] >>, 1) }

InitWorkers ==
  /\ build \in {"debug", "release"}
  /\ \E b \in WorkerBaselines : base_db = b.table /\ base_students = b.students
  /\ db = base_db
  /\ students = <<>>
  /\ undone_students = <<>>
  /\ eschatons = <<>>
  /\ pass = 0
  /\ shuffles = 0
  /\ pc = "spawned"
  /\ fn_arg = None
  /\ fn_res = None
  /\ AggregatorAt(<<>>)
  /\ workers = [w \in Workers |->
                  [db |-> base_db, students |-> <<>>, undone_students |-> <<>>,
                   eschatons |-> <<>>, pc |-> "trial"]]

NextWorkers ==
  \/ \E w \in Workers : WStartTrial(w)
  \/ \E w \in Workers : WSkipDone(w)
  \/ \E w \in Workers : WSelectErr(w)
  \/ \E w \in Workers : WSelectOk(w)
  \/ \E w \in Workers : WBreakGame(w)
  \/ \E w \in Workers : WNextPass(w)
  \/ \E w \in Workers : WSendResult(w)
  \/ \E elapsed \in Elapsed : AggRecv(elapsed)

SpecWorkers == InitWorkers /\ [][NextWorkers]_vars

----------------------------------------------------------------------------
(* impl AddAssign<Vec<Student>> for State on every pair of outcomes *)

\* a Vec<Student> of the given names
StudentsNamed(names) ==
  [i \in 1..Len(names) |-> [name |-> names[i], selection |-> [t \in Terms |-> None]]]

\* the stuck vectors a trial can send: up to MaxStudents names
Outcomes ==
  UNION { {StudentsNamed(names) : names \in [1..n -> 1..MaxStudents]} : n \in 0..MaxStudents }

\* the failure maps over the names
FailsMaps ==
  UNION { [seen -> 1..2] : seen \in SUBSET (1..MaxStudents) }

InitMerge ==
  /\ build \in {"debug", "release"}
  /\ fn_arg \in [self : [count : {2}, success : 0..1, fails : FailsMaps],
                 a : Outcomes, b : Outcomes]
  /\ fn_res = None
  /\ pc = "merge"
  /\ base_db = <<>>
  /\ base_students = <<>>
  /\ db = <<>>
  /\ students = <<>>
  /\ undone_students = <<>>
  /\ eschatons = <<>>
  /\ pass = 0
  /\ shuffles = 0
  /\ AggregatorAt(<<>>)
  /\ workers = <<>>

\* state += a; state += b, and state += b; state += a
MergeApply ==
  /\ pc = "merge"
  /\ fn_res' = [ab |-> Merge(Merge(fn_arg.self, fn_arg.a), fn_arg.b),
                ba |-> Merge(Merge(fn_arg.self, fn_arg.b), fn_arg.a)]
  /\ pc' = "merge_done"
  /\ UNCHANGED <<base, trial, fn_arg, aggregator, workers>>

NextMerge == MergeApply

SpecMerge == InitMerge /\ [][NextMerge]_vars

----------------------------------------------------------------------------
(* Vocabulary of the properties *)

\* every slot of the selection holds a hospital type
AllAssigned(selection) == \A t \in Terms : selection[t] \in HospitalType

\* how many slots of the selection hold h
Assigned(selection, h) == Cardinality({t \in Terms : selection[t] = h})

\* the participants of the running trial that are still held by the worker
InTrial == students \o undone_students \o eschatons

\* the step is a call of random_select on Head(students)
IsSelect ==
  /\ pc = "pass"
  /\ students # <<>>
  /\ \/ Len(undone_students') = Len(undone_students) + 1
     \/ Len(eschatons') = Len(eschatons) + 1
     \/ pc' = "panic"

\* the step is a call of random_select that returned Ok, Err
IsSelectOk  == pc = "pass" /\ pc' = "pass" /\ Len(undone_students') = Len(undone_students) + 1
IsSelectErr == pc = "pass" /\ pc' = "pass" /\ Len(eschatons') = Len(eschatons) + 1

\* the remaining need random_select computes for a participant
Need(student, h) == Count(RequiredHospitals(student).slot, h)

\* the (term, hospital) pairs with a place left and a need left
Feasible(table, student) ==
  LET required == RequiredHospitals(student).slot
  IN  {th \in Terms \X HospitalType :
         /\ student.selection[th[1]] = None
         /\ Count(table[th[1]], th[2]) # 0
         /\ Count(required, th[2]) # 0}

----------------------------------------------------------------------------
(* C2 *)

\* C2: within a trial no inventory count increases from one state to the
\* next, and a count changes only by a decrement of 1 applied to a count
\* that is not 0.
C2_InventoryOnlyShrinks ==
  [][pc = "pass" =>
       \A t \in Terms : \A h \in HospitalType :
         \/ Count(db'[t], h) = Count(db[t], h)
         \/ /\ Count(db[t], h) # 0
            /\ Count(db'[t], h) = Count(db[t], h) - 1
            /\ ULt(Count(db'[t], h), Count(db[t], h))]_vars

\* a trial in which random_select has taken a place from the inventory
C2_Witness == pc = "pass" /\ db # base_db

----------------------------------------------------------------------------
(* C3 *)

\* C3: whenever random_select commits (term, hospital) for a participant,
\* whatever index was drawn, the term was unassigned for the participant,
\* the inventory count of the hospital type in the term was greater than
\* zero and the participant's remaining need of the type was greater than
\* zero, all before the commit.
C3_CommitIsFeasible ==
  [][IsSelectOk =>
       LET before == Head(students)
           after  == undone_students'[Len(undone_students')]
       IN  \E th \in Feasible(db, before) :
             /\ after.selection[th[1]] = th[2]
             /\ db'[th[1]] # db[th[1]]]_vars

\* a participant has advanced in the running pass
C3_Witness == pc = "pass" /\ undone_students # <<>>

----------------------------------------------------------------------------
(* C4 *)

\* C4: random_select returns the "no feasible choice" failure exactly when
\* no open term of the participant has a hospital type with both a place
\* left and a need left (total weight 0), and on the failure the inventory
\* and the participant's assignments are as before the call.
C4_ErrIffNoFeasibleChoice ==
  [][/\ IsSelectErr =>
          /\ Feasible(db, Head(students)) = {}
          /\ db' = db
          /\ eschatons'[Len(eschatons')] = Head(students)
     /\ (IsSelect /\ Feasible(db, Head(students)) = {} /\ pc' = "pass") =>
          IsSelectErr]_vars

\* a participant has failed a random_select in the running trial
C4_Witness == pc = "pass" /\ eschatons # <<>>

----------------------------------------------------------------------------
(* C1 *)

\* the required-count vector of the two courses
CourseVector(course, h) ==
  IF course = Eschaton
    THEN (CASE h = InnerMedical -> 1 [] h = InnerSurgical -> 2
            [] h = OuterMedical -> 2 [] h = OuterSurgical -> 1)
    ELSE (CASE h = InnerMedical -> 2 [] h = InnerSurgical -> 1
            [] h = OuterMedical -> 1 [] h = OuterSurgical -> 2)

\* C1: every participant of a trial with all 6 slots assigned holds, of each
\* hospital type, exactly the number its inferred course requires.
C1_DoneHoldsCourseVector ==
  pc \in {"pass", "send"} =>
    \A i \in 1..Len(InTrial) :
      AllAssigned(InTrial[i].selection) =>
        /\ Course(InTrial[i]) # None
        /\ \A h \in HospitalType :
             Assigned(InTrial[i].selection, h) = CourseVector(Course(InTrial[i]), h)

----------------------------------------------------------------------------
(* C5 *)

\* the unassigned slots of the baseline
Unassigned ==
  Cardinality({it \in (1..Len(base_students)) \X Terms :
                 base_students[it[1]].selection[it[2]] = None})

\* C5: every trial terminates: the pass loop takes at most (unassigned slots
\* of the baseline + 1) passes, and the worker never stops inside the loop
\* before the pass in which no participant advanced.
C5_TrialTerminates ==
  /\ pass <= Unassigned + 1
  /\ ~(pc = "panic" /\ pass >= 1)

----------------------------------------------------------------------------
(* C7 *)

\* C7: random_select is never called on a participant with no unassigned
\* term, nor on a participant that is already in the stuck set.
C7_SelectOnlyOpenParticipants ==
  [][IsSelect =>
       /\ ~AllAssigned(Head(students).selection)
       /\ \A i \in 1..Len(eschatons) : eschatons[i].name # Head(students).name]_vars

\* a participant has become Done by random_select and a later pass has skipped it
C7_Witness ==
  /\ pc = "pass"
  /\ \E i \in 1..Len(base_students) :
       /\ ~AllAssigned(base_students[i].selection)
       /\ \A j \in 1..Len(InTrial) : InTrial[j].name # base_students[i].name

----------------------------------------------------------------------------
(* C6 *)

\* the names of the participants of a Vec<Student>
Names(seq) == {seq[i].name : i \in 1..Len(seq)}

\* the participants the pass loop still has to decide on
InPlay == students \o undone_students

\* C6: a trial ends only when no participant is left in the pass loop; a
\* participant leaves the loop only as Done or into the stuck set; the
\* trial starts with every participant of the baseline; the stuck set keeps
\* every participant pushed to it, holds no Done participant and holds no
\* participant twice.
C6_DoneOrStuckAtEnd ==
  [][/\ (pc' = "send") => (students' = <<>> /\ undone_students' = <<>>)
     /\ (pc = "trial" /\ pc' = "pass") =>
          (Names(InPlay') = Names(base_students) /\ Len(InPlay') = Len(base_students))
     /\ (pc = "pass") =>
          /\ \A i \in 1..Len(InPlay) :
               InPlay[i].name \notin Names(InPlay') =>
                 \/ AllAssigned(InPlay[i].selection)
                 \/ InPlay[i].name \in Names(eschatons')
          /\ Len(eschatons') >= Len(eschatons)
          /\ SubSeq(eschatons', 1, Len(eschatons)) = eschatons
          /\ \A i \in 1..Len(eschatons') : ~AllAssigned(eschatons'[i].selection)
          /\ Cardinality(Names(eschatons')) = Len(eschatons')
          /\ Names(eschatons') \cap Names(InPlay') = {}]_vars

\* a trial has ended with one participant Done and another in the stuck set
C6_Witness ==
  /\ pc = "send"
  /\ eschatons # <<>>
  /\ Len(eschatons) < Len(base_students)

----------------------------------------------------------------------------
(* C8 *)

\* the position of name n in the Vec<Student> seq
Position(seq, n) == CHOOSE k \in 1..Len(seq) : seq[k].name = n

\* the participants of a are participants of b, in the order they have in b
KeepsOrder(a, b) ==
  /\ Names(a) \subseteq Names(b)
  /\ \A i, j \in 1..Len(a) :
       i < j => Position(b, a[i].name) < Position(b, a[j].name)

\* C8 as stated: the Open participants are shuffled afresh in every pass.
C8_FreshShuffleEachPass == pc = "pass" => shuffles = pass

\* C8 amended: the participants are shuffled once, at the start of the
\* trial, and every later pass processes the participants still Open in the
\* relative order the previous pass processed them.
C8_ShuffledOncePerTrial ==
  [][/\ (pc' = "pass") => (shuffles' = 1)
     /\ (pc = "pass" /\ pc' = "pass") =>
          KeepsOrder(undone_students' \o students', undone_students \o students)]_vars

\* a second or later pass with two participants still to process
C8_Witness == pc = "pass" /\ pass >= 2 /\ Len(students) >= 2

----------------------------------------------------------------------------
(* C9 *)

\* the terms whose hospital type already occurs in an earlier term
RepeatTerms(selection) ==
  {j \in Terms : /\ selection[j] # None
                 /\ \E i \in 1..(j - 1) : selection[i] = selection[j]}

\* the least term of a non-empty set
FirstTerm(ts) == CHOOSE j \in ts : \A k \in ts : j <= k

\* C9: course() is unknown when no hospital type occurs twice, and
\* otherwise the course of the type found to repeat first in term order
\* (InnerSurgical, OuterMedical: Eschaton; InnerMedical, OuterSurgical:
\* Avoidance); the remaining need is usize::MAX in every type when the
\* course is unknown, and the course's vector minus the number of slots
\* holding the type (in usize) when it is known, the build with overflow
\* checks panicking exactly when that number exceeds the vector.
\* InnerSurgical in terms 1 and 2 gives Eschaton and the need 1, 0, 2, 1.
C9_CourseAndNeed ==
  pc = "fn_done" =>
    LET repeats == RepeatTerms(fn_arg)
        first   == fn_arg[FirstTerm(repeats)]
        over    == \E h \in HospitalType :
                     Assigned(fn_arg, h) > CourseVector(fn_res.course, h)
    IN  /\ repeats = {} =>
             /\ fn_res.course = None
             /\ \A h \in HospitalType : Count(fn_res.required, h) = USIZE_MAX
        /\ repeats # {} =>
             /\ fn_res.course =
                  IF first \in {InnerSurgical, OuterMedical} THEN Eschaton ELSE Avoidance
             /\ fn_res.panic <=> (build = "debug" /\ over)
             /\ ~fn_res.panic =>
                  \A h \in HospitalType :
                    Count(fn_res.required, h) =
                      CourseVector(fn_res.course, h) - Assigned(fn_arg, h)
        /\ fn_arg = <<InnerSurgical, InnerSurgical, None, None, None, None>> =>
             /\ fn_res.course = Eschaton
             /\ ~fn_res.panic
             /\ fn_res.required = [inner_medical |-> 1, inner_surgical |-> 0,
                                   outer_medical |-> 2, outer_surgical |-> 1]

\* the course and the need of InnerSurgical in terms 1 and 2 have been computed
C9_Witness ==
  /\ pc = "fn_done"
  /\ fn_arg = <<InnerSurgical, InnerSurgical, None, None, None, None>>
  /\ fn_res.course = Eschaton

----------------------------------------------------------------------------
(* C10 *)

\* the terms in which two selections differ
Changed(before, after) == {t \in Terms : before[t] # after[t]}

\* C10: within a trial an assigned slot keeps its hospital type in every
\* later state, and a successful random_select changes exactly one slot,
\* of the participant it was called on, from unassigned to assigned.
C10_AssignedSlotsAreKept ==
  [][(pc = "pass") =>
       /\ \A i \in 1..Len(InTrial) : \A j \in 1..Len(InTrial') :
            InTrial[i].name = InTrial'[j].name =>
              \A t \in Terms :
                InTrial[i].selection[t] # None =>
                  InTrial'[j].selection[t] = InTrial[i].selection[t]
       /\ IsSelectOk =>
            LET before == Head(students).selection
                after  == undone_students'[Len(undone_students')].selection
            IN  /\ undone_students'[Len(undone_students')].name = Head(students).name
                /\ Cardinality(Changed(before, after)) = 1
                /\ \A t \in Changed(before, after) :
                     before[t] = None /\ after[t] \in HospitalType
                /\ students' = Tail(students)
                /\ SubSeq(undone_students', 1, Len(undone_students)) = undone_students
                /\ eschatons' = eschatons]_vars

\* a participant holds a slot assigned by random_select next to another
C10_Witness ==
  /\ pc = "pass"
  /\ Len(InTrial) >= 2
  /\ \E i \in 1..Len(InTrial) : \E k \in 1..Len(base_students) :
       /\ InTrial[i].name = base_students[k].name
       /\ Cardinality(Changed(base_students[k].selection, InTrial[i].selection)) >= 2

----------------------------------------------------------------------------
(* C11 *)

\* the step takes a result off the channel
IsRecv == chan # <<>> /\ chan' = Tail(chan)

\* how often the name is in the Vec
Occurrences(seq, name) == Cardinality({i \in 1..Len(seq) : seq[i].name = name})

\* the tally the failure map holds for a name, 0 for an unseen one
Tally(fails, name) == IF name \in DOMAIN fails THEN fails[name] ELSE 0

\* C11: the step that receives an outcome raises count by 1, success by 1
\* exactly when the stuck vector is empty, the tally of each stuck name by 1
\* (from 0 for an unseen name) and no other tally, whichever gate fires on
\* it; no other step changes the statistics.
C11_MergedExactlyOnce ==
  [][/\ IsRecv =>
          LET stuck == Head(chan).students
          IN  /\ state'.count = state.count + 1
              /\ state'.success = state.success + (IF stuck = <<>> THEN 1 ELSE 0)
              /\ DOMAIN state'.fails =
                   DOMAIN state.fails \cup {stuck[i].name : i \in 1..Len(stuck)}
              /\ \A n \in DOMAIN state'.fails :
                   state'.fails[n] = Tally(state.fails, n) + Occurrences(stuck, n)
     /\ ~IsRecv => state' = state]_vars

----------------------------------------------------------------------------
(* C12 *)

\* C12: merging outcome a then b leaves the same count, success and failure
\* map as merging b then a.
C12_MergeCommutes ==
  pc = "merge_done" =>
    /\ fn_res.ab.count = fn_res.ba.count
    /\ fn_res.ab.success = fn_res.ba.success
    /\ fn_res.ab.fails = fn_res.ba.fails

\* a success and a failure of two participants, one of them seen before,
\* have been merged in both orders
C12_Witness ==
  /\ pc = "merge_done"
  /\ fn_arg.a = <<>>
  /\ Len(fn_arg.b) = 2
  /\ fn_arg.b[1].name # fn_arg.b[2].name
  /\ DOMAIN fn_arg.self.fails = {fn_arg.b[1].name}
  /\ fn_res.ab.success = fn_arg.self.success + 1

----------------------------------------------------------------------------
(* C13 *)

\* C13: once the channel is closed and drained the aggregator writes
\* state.json and reports completion exactly once, and not again.
C13_OneFinalSave == finals <= 1

----------------------------------------------------------------------------
(* C14 *)

\* C14: a report or a periodic save happens only in a step that receives an
\* outcome; the save only together with a report; and a step that receives
\* an outcome with the report gate shut makes neither, whatever the time
\* since the last save.  A report sets last_shown, a periodic save sets
\* last_saved and writes state.json.
C14_GatesAreNested ==
  [][LET reported == last_shown' # last_shown
         saved    == last_saved' # last_saved
         gate     == now' - last_shown > StdoutDuration
     IN  /\ reported => IsRecv /\ gate
         /\ saved => IsRecv /\ reported /\ now' - last_saved > SaveDuration
                            /\ file' = <<state>>
         /\ (IsRecv /\ ~gate) => ~reported /\ ~saved /\ file' = file
         /\ (IsRecv /\ agg_pc' = "report") => reported /\ ~saved /\ file' = file
         /\ (IsRecv /\ agg_pc' = "save") => reported /\ saved
         /\ file' # file => saved \/ (chan = <<>> /\ closed)]_vars

\* an outcome has been merged without report or save although more than
\* save_duration has passed since the last save
C14_Witness ==
  /\ agg_pc = "merge"
  /\ now - last_saved > SaveDuration
  /\ now - last_shown <= StdoutDuration
  /\ last_shown > 0

----------------------------------------------------------------------------
(* C15 *)

\* the same students, whatever the order
SameStudents(a, b) ==
  /\ Len(a) = Len(b)
  /\ \A i \in 1..Len(a) : \E j \in 1..Len(b) : a[i] = b[j]
  /\ \A j \in 1..Len(b) : \E i \in 1..Len(a) : a[i] = b[j]

\* C15: no step changes the baseline table or the baseline participants;
\* every trial starts from a table equal to the baseline's and from the
\* baseline's participants; a step of one worker leaves the trial state of
\* every other worker as it was.
C15_TrialsAreIsolated ==
  [][/\ base_db' = base_db
     /\ base_students' = base_students
     /\ \A w \in Workers :
          (workers[w].pc = "trial" /\ workers'[w].pc = "pass") =>
            /\ workers'[w].db = base_db
            /\ SameStudents(workers'[w].students, base_students)
            /\ workers'[w].undone_students = <<>>
            /\ workers'[w].eschatons = <<>>
     /\ \A w \in Workers : \A v \in Workers \ {w} :
          workers'[w] # workers[w] => workers'[v] = workers[v]]_vars

\* two workers are inside trials whose tables differ from the baseline's and
\* from each other's
C15_Witness ==
  /\ DOMAIN workers = Workers
  /\ \E w \in Workers : \E v \in Workers \ {w} :
       /\ workers[w].pc = "pass"
       /\ workers[v].pc = "pass"
       /\ workers[w].db # base_db
       /\ workers[v].db # base_db
       /\ workers[w].db # workers[v].db

----------------------------------------------------------------------------
(* C16 *)

\* C16: every decrement of an inventory count is applied to a count verified
\* to be positive, in init_student as in random_select: no count of the
\* baseline or of a trial's table has wrapped below 0, and loading the
\* baseline never stops on a decrement of a count of 0.
C16_DecrementOnlyWhenPositive ==
  /\ \A t \in DOMAIN base_db : \A h \in HospitalType : Count(base_db[t], h) >= 0
  /\ \A t \in DOMAIN db : \A h \in HospitalType : Count(db[t], h) >= 0
  /\ ~(pc = "panic" /\ pass = 0)

----------------------------------------------------------------------------
(* C17 *)

\* C17: every participant of a trial whose course is known holds of each
\* hospital type at most the number its course requires, so that
\* required_hospitals never decrements a count of 0.
C17_AssignedWithinCourseVector ==
  pc \in {"pass", "send"} =>
    \A i \in 1..Len(InTrial) :
      /\ ~RequiredHospitals(InTrial[i]).overflow
      /\ Course(InTrial[i]) # None =>
           \A h \in HospitalType :
             Assigned(InTrial[i].selection, h) <= CourseVector(Course(InTrial[i]), h)

----------------------------------------------------------------------------
(* C18 *)

\* the participant has no feasible choice in the table
Stuck(table, student) == ~\E th \in Feasible(table, student) : TRUE

\* C18: within a trial a participant with no feasible choice has none in the
\* next state either, and every participant pushed to eschatons has none.
C18_StuckIsPermanent ==
  [][pc = "pass" =>
       /\ \A i \in 1..Len(InTrial) : \A j \in 1..Len(InTrial') :
            (InTrial[i].name = InTrial'[j].name /\ Stuck(db, InTrial[i]))
              => Stuck(db', InTrial'[j])
       /\ \A j \in 1..Len(eschatons') : Stuck(db', eschatons'[j])]_vars

\* a participant is stuck while another one has advanced after it
C18_Witness ==
  /\ pc = "pass"
  /\ pass >= 2
  /\ eschatons # <<>>
  /\ undone_students # <<>>
  /\ db # base_db

----------------------------------------------------------------------------
(* C19 *)

\* the participant of the baseline with the given name
Baseline(name) == base_students[CHOOSE k \in 1..Len(base_students) : base_students[k].name = name]

\* C19: a participant that started the trial with no assignment and whose
\* course is known has the same course after a successful random_select.
C19_CourseIsStable ==
  [][IsSelectOk =>
       LET before == Head(students)
           after  == undone_students'[Len(undone_students')]
       IN  (Assigned(Baseline(before.name).selection, None) = NumTerms
              /\ Course(before) # None)
             => Course(after) = Course(before)]_vars

\* a participant that started with no assignment holds its repeated pair in
\* later terms than an assignment made by a later random_select
C19_Witness ==
  /\ pc = "pass"
  /\ \E i \in 1..Len(undone_students) :
       LET s == undone_students[i]
       IN  /\ Assigned(Baseline(s.name).selection, None) = NumTerms
           /\ Course(s) # None
           /\ s.selection[1] # None
           /\ s.selection[1] # s.selection[2]
           /\ \E t \in Terms : t >= 2 /\ s.selection[t] = None
           /\ \E t, u \in Terms : t < u /\ s.selection[t] # None
                                   /\ s.selection[t] = s.selection[u]

----------------------------------------------------------------------------
(* C20 *)

\* the participants of seq that hold hospital h in term t
Holders(seq, t, h) == Cardinality({i \in 1..Len(seq) : seq[i].selection[t] = h})

\* C20: a trial starts from the baseline's table and participants, and every
\* step of it lowers each count of the table by exactly the number of
\* participants the step assigned that hospital type in that term: one for
\* the slot a successful random_select fills, none otherwise.
C20_CapacityIsConserved ==
  [][/\ (pc = "trial" /\ pc' = "pass") =>
          /\ db' = base_db
          /\ \A t \in Terms : \A h \in HospitalType :
               Holders(InTrial', t, h) = Holders(base_students, t, h)
     /\ (pc = "pass" /\ pc' = "pass") =>
          \A t \in Terms : \A h \in HospitalType :
            LET given == IF IsSelectOk
                           /\ Head(students).selection[t] = None
                           /\ undone_students'[Len(undone_students')].selection[t] = h
                         THEN 1 ELSE 0
            IN  /\ Count(db'[t], h) = Count(db[t], h) - given
                /\ given = 1 => Count(db[t], h) # 0
     /\ (pc = "pass" /\ pc' = "send") => db' = db]_vars

\* two participants have been given places of the same trial's table
C20_Witness ==
  /\ pc = "pass"
  /\ Len(undone_students) >= 2
  /\ \E t \in Terms : \E h \in HospitalType :
       /\ Count(db[t], h) = 0
       /\ Count(base_db[t], h) = Holders(InTrial, t, h) - Holders(base_students, t, h)
       /\ Count(base_db[t], h) = 2

====
